---- MODULE Spec2Model ----
(***************************************************************************)
(* The WeatherMap component of next-weather-app: the location-driven       *)
(* refresh controller made of fetchWeatherData, handleLocationSelect,      *)
(* handleSearch and handleRefresh, together with the React state and refs  *)
(* they read and write.                                                    *)
(*                                                                         *)
(* Coordinates are integers in units of 10^-5 degree.  A React state value *)
(* is the value of the last committed render; a handler reads the state    *)
(* captured by the render that created it.  handleSearch is async: the     *)
(* code after its await still runs in the closure of the render in which   *)
(* the search was started, so the `loading` it (and the fetchWeatherData   *)
(* it reaches) reads is the value at the time the search began.  A map     *)
(* click and a refresh run the handler of the current render.  Refs are    *)
(* shared by all renders.                                                  *)
(***************************************************************************)
EXTENDS Integers, Sequences, FiniteSets, TLC

\* ---------------------------------------------------------------- bounds
MaxFetch == 2        \* fetch cycles initiated in one behaviour
MaxSearches == 1     \* geocoding requests pending at the same time
MaxResults == 1      \* candidates in one geocoding response

\* ---------------------------------------------------------------- inputs
\* the points a map click can report, as <<lat, lng>> in 10^-5 degree:
\* 0 and 4 format to the same 4-decimal text, 4 and 6 do not
MapPoints == {<<0, 4>>, <<4, 4>>, <<4, 6>>}

Null == [null |-> TRUE]
NoError == "null"
NoTime == -1

FetchError == "Failed to fetch weather data. Please try again later."
NotFoundError == "Location not found. Please try another search."
SearchFailedError == "Location search failed. Please try again later."

Outcomes == {"ok", "notok", "reject"}

VARIABLES
    selectedLocation,    \* useState<Location | null>
    weatherData,         \* useState<WeatherData | null>
    forecastData,        \* useState<ForecastData | null>
    alertsData,          \* useState<Alert[] | null>
    loading,             \* useState(false)
    error,               \* useState<string | null>
    isSearching,         \* useState(false)
    searchError,         \* useState<string | null>
    lastUpdated,         \* useState<number | null>
    dataFetchedRef,      \* useRef<boolean>(false)
    locationKeyRef,      \* useRef<string | null>
    currentLocationRef,  \* useRef<Location | null>
    cycles,              \* fetchWeatherData invocations suspended at an await,
                         \* each with the data displayed when it began (kept
                         \* until its forecast response)
    searches,            \* handleSearch invocations suspended at their await
    fetchCount,          \* number of fetch cycles initiated so far
    lastOp               \* the handler step taken last

vars == <<selectedLocation, weatherData, forecastData, alertsData, loading,
          error, isSearching, searchError, lastUpdated, dataFetchedRef,
          locationKeyRef, currentLocationRef, cycles, searches, fetchCount,
          lastOp>>

dataVars == <<weatherData, forecastData, alertsData, lastUpdated>>
searchVars == <<isSearching, searchError, searches>>
selectVars == <<selectedLocation, dataFetchedRef, locationKeyRef,
                currentLocationRef>>
fetchVars == <<loading, error, cycles, fetchCount>>

\* ------------------------------------------------------- pure functions
Abs(x) == IF x < 0 THEN -x ELSE x

\* Number.prototype.toFixed(4) of a coordinate: the sign is kept apart
\* from the digits ("-0.0000" is not "0.0000"), the magnitude is rounded
\* to the nearest 10^-4
ToFixed4(x) == [neg |-> x < 0, digits |-> (Abs(x) + 5) \div 10]

LocationKey(location) ==
    [lat |-> ToFixed4(location.lat), lng |-> ToFixed4(location.lng)]

\* the Location a map click reports: coordinates only
ClickLocation(lat, lng) == [lat |-> lat, lng |-> lng]

\* a || null: undefined becomes null, every array (the empty one too) is kept
Undefined == [undefined |-> TRUE]
OrNull(v) == IF v = Undefined THEN Null ELSE v

\* ----------------------------------------------- geocoder response texts
Digits == <<"0", "1", "2", "3", "4", "5", "6", "7", "8", "9">>
DigitValue(c) == (CHOOSE i \in 1..10 : Digits[i] = c) - 1

IndexOf(s, c) ==
    IF \E i \in 1..Len(s) : s[i] = c
    THEN CHOOSE i \in 1..Len(s) : s[i] = c /\ \A j \in 1..(i - 1) : s[j] # c
    ELSE 0

RECURSIVE DigitsValue(_)
DigitsValue(s) ==
    IF s = <<>> THEN 0
    ELSE 10 * DigitsValue(SubSeq(s, 1, Len(s) - 1)) + DigitValue(s[Len(s)])

\* the first five fraction digits, zero-padded: the value in 10^-5 units
FractionValue(s) ==
    DigitsValue(SubSeq(s \o <<"0", "0", "0", "0", "0">>, 1, 5))

\* Number.parseFloat of a decimal text, as a count of 10^-5 degree
ParseFloat(s) ==
    LET neg == s # <<>> /\ s[1] = "-"
        body == IF neg THEN Tail(s) ELSE s
        dot == IndexOf(body, ".")
        whole == IF dot = 0 THEN body ELSE SubSeq(body, 1, dot - 1)
        frac == IF dot = 0 THEN <<>> ELSE SubSeq(body, dot + 1, Len(body))
        mag == 100000 * DigitsValue(whole) + FractionValue(frac)
    IN  IF neg THEN -mag ELSE mag

\* display_name.split(",")[0]: the text before the first comma
SplitFirst(s) ==
    LET comma == IndexOf(s, ",")
    IN  IF comma = 0 THEN s ELSE SubSeq(s, 1, comma - 1)

\* candidates the geocoder can return
GeoCandidates ==
    { [lat |-> <<"0", ".", "0", "0", "0", "0", "4">>,
       lon |-> <<"0", ".", "0", "0", "0", "0", "4">>,
       display_name |-> <<"P", ",", "F">>] }

GeoResponses ==
    UNION { [1..n -> GeoCandidates] : n \in 0..MaxResults }

\* the place name the weather service reports in a current-conditions response
ApiName == <<"S">>

\* the alerts field of a onecall response: missing, or an array
AlertFields == {Undefined, [alerts |-> <<>>]}

\* ------------------------------------------------------------------ Init
Init ==
    /\ selectedLocation = Null
    /\ weatherData = Null
    /\ forecastData = Null
    /\ alertsData = Null
    /\ loading = FALSE
    /\ error = NoError
    /\ isSearching = FALSE
    /\ searchError = NoError
    /\ lastUpdated = NoTime
    /\ dataFetchedRef = FALSE
    /\ locationKeyRef = Null
    /\ currentLocationRef = Null
    /\ cycles = {}
    /\ searches = [l \in BOOLEAN |-> 0]
    /\ fetchCount = 0
    /\ lastOp = [op |-> "init", outcome |-> ""]

\* ------------------------------------------------------ fetchWeatherData
\* what a response step saw, for lastOp
OkOrFailed(outcome) == IF outcome = "ok" THEN "ok" ELSE "failed"

\* a name for a new suspended invocation: the least one not in use
FreeId ==
    CHOOSE i \in 1..(Cardinality(cycles) + 1) :
        /\ \A c \in cycles : c.id # i
        /\ \A j \in 1..(i - 1) : \E c \in cycles : c.id = j

\* currentData of a cycle: the parsed current-conditions response
CurrentData(c) == [lat |-> c.lat, lng |-> c.lng, name |-> ApiName]

\* The synchronous head of fetchWeatherData, up to its first await.
\* seenLoading is the `loading` of the render whose closure is running.
FetchWeatherData(location, seenLoading) ==
    IF seenLoading
    THEN UNCHANGED fetchVars
    ELSE /\ fetchCount < MaxFetch
         /\ loading' = TRUE
         /\ error' = NoError
         /\ fetchCount' = fetchCount + 1
         /\ cycles' = cycles \cup
                {[id |-> FreeId, lat |-> location.lat, lng |-> location.lng,
                  stage |-> "current", before |-> dataVars]}

\* the catch of fetchWeatherData without the finally block
AbortNoFinally(c) ==
    /\ error' = FetchError
    /\ UNCHANGED loading
    /\ cycles' = cycles \ {c}

\* catch and finally of fetchWeatherData: the cycle ends with the error set
Abort(c) ==
    /\ error' = FetchError
    /\ loading' = FALSE
    /\ cycles' = cycles \ {c}

\* Date.now() at the end of a cycle: later than every earlier reading
DateNow == IF lastUpdated = NoTime THEN 1 ELSE lastUpdated + 1

\* the current-conditions response with setWeatherData under the
\* comparison that the name update makes
RespCurrentGuarded(c, outcome) ==
    /\ c \in cycles /\ c.stage = "current"
    /\ IF outcome = "ok"
       THEN /\ weatherData' =
                  IF selectedLocation # Null
                        /\ selectedLocation.lat = c.lat
                        /\ selectedLocation.lng = c.lng
                  THEN CurrentData(c) ELSE weatherData
            /\ cycles' = (cycles \ {c}) \cup
                   {[c EXCEPT !.stage = "forecast"]}
            /\ UNCHANGED <<loading, error>>
       ELSE Abort(c) /\ UNCHANGED weatherData
    /\ lastOp' = [op |-> "respCurrent", outcome |-> OkOrFailed(outcome)]
    /\ UNCHANGED <<forecastData, alertsData, lastUpdated, fetchCount>>
    /\ UNCHANGED selectVars
    /\ UNCHANGED searchVars

\* the current-conditions response of cycle c arrives
RespCurrent(c, outcome) ==
    /\ c \in cycles /\ c.stage = "current"
    /\ IF outcome = "ok"
       THEN /\ weatherData' = CurrentData(c)
            /\ cycles' = (cycles \ {c}) \cup
                   {[c EXCEPT !.stage = "forecast"]}
            /\ UNCHANGED <<loading, error>>
       ELSE Abort(c) /\ UNCHANGED weatherData
    /\ lastOp' = [op |-> "respCurrent", outcome |-> OkOrFailed(outcome)]
    /\ UNCHANGED <<forecastData, alertsData, lastUpdated, fetchCount>>
    /\ UNCHANGED selectVars
    /\ UNCHANGED searchVars

\* the forecast response with setLastUpdated moved up to setForecastData
RespForecastStamping(c, outcome) ==
    /\ c \in cycles /\ c.stage = "forecast"
    /\ IF outcome = "ok"
       THEN /\ forecastData' = [lat |-> c.lat, lng |-> c.lng]
            /\ lastUpdated' = DateNow
            /\ cycles' = (cycles \ {c}) \cup
                   {[c EXCEPT !.stage = "alerts", !.before = Null]}
            /\ UNCHANGED <<loading, error>>
       ELSE Abort(c) /\ UNCHANGED <<forecastData, lastUpdated>>
    /\ lastOp' = [op |-> "respForecast", outcome |-> OkOrFailed(outcome)]
    /\ UNCHANGED <<weatherData, alertsData, fetchCount>>
    /\ UNCHANGED selectVars
    /\ UNCHANGED searchVars

\* the forecast response of cycle c arrives
RespForecast(c, outcome) ==
    /\ c \in cycles /\ c.stage = "forecast"
    /\ IF outcome = "ok"
       THEN /\ forecastData' = [lat |-> c.lat, lng |-> c.lng]
            /\ cycles' = (cycles \ {c}) \cup
                   {[c EXCEPT !.stage = "alerts", !.before = Null]}
            /\ UNCHANGED <<loading, error>>
       ELSE Abort(c) /\ UNCHANGED forecastData
    /\ lastOp' = [op |-> "respForecast", outcome |-> OkOrFailed(outcome)]
    /\ UNCHANGED <<weatherData, alertsData, lastUpdated, fetchCount>>
    /\ UNCHANGED selectVars
    /\ UNCHANGED searchVars

\* the functional update of selectedLocation without its comparison of
\* latitude and longitude
ReconcileNameUnguarded(prevLocation, c) ==
    IF prevLocation # Null
    THEN [lat |-> prevLocation.lat, lng |-> prevLocation.lng,
          name |-> CurrentData(c).name]
    ELSE prevLocation

\* the functional update of selectedLocation at the end of a cycle
ReconcileName(prevLocation, c) ==
    IF prevLocation # Null /\ prevLocation.lat = c.lat
                          /\ prevLocation.lng = c.lng
    THEN [lat |-> prevLocation.lat, lng |-> prevLocation.lng,
          name |-> CurrentData(c).name]
    ELSE prevLocation

\* the onecall response of cycle c arrives; field is its alerts field
RespAlerts(c, outcome, field) ==
    /\ c \in cycles /\ c.stage = "alerts"
    /\ IF outcome = "reject"
       THEN /\ Abort(c)
            /\ UNCHANGED <<alertsData, lastUpdated, selectedLocation>>
       ELSE /\ alertsData' = IF outcome = "ok" THEN OrNull(field) ELSE Null
            /\ lastUpdated' = DateNow
            /\ selectedLocation' = ReconcileName(selectedLocation, c)
            /\ loading' = FALSE
            /\ cycles' = cycles \ {c}
            /\ UNCHANGED error
    /\ lastOp' = [op |-> "respAlerts",
                  outcome |-> IF outcome = "ok" /\ field = Undefined
                              THEN "okNoField" ELSE outcome]
    /\ UNCHANGED <<weatherData, forecastData, fetchCount>>
    /\ UNCHANGED <<dataFetchedRef, locationKeyRef, currentLocationRef>>
    /\ UNCHANGED searchVars

\* what a selection did about fetching, for lastOp
SelectOutcome ==
    IF fetchCount' # fetchCount THEN "started"
    ELSE IF locationKeyRef' = locationKeyRef THEN "deduped"
    ELSE "dropped"

\* what a refresh did about fetching, for lastOp
RefreshOutcome ==
    IF fetchCount' # fetchCount THEN "started"
    ELSE IF currentLocationRef = Null THEN "noLocation"
    ELSE "dropped"

\* -------------------------------------------------- handleLocationSelect
\* handleLocationSelect without the write of locationKeyRef
HandleLocationSelectNoStore(location, seenLoading) ==
    LET locationKey == LocationKey(location)
    IN  /\ currentLocationRef' = location
        /\ selectedLocation' = location
        /\ UNCHANGED locationKeyRef
        /\ IF locationKey # locationKeyRef
           THEN /\ dataFetchedRef' = TRUE
                /\ FetchWeatherData(location, seenLoading)
           ELSE /\ UNCHANGED dataFetchedRef
                /\ UNCHANGED fetchVars

\* handleLocationSelect with the write of locationKeyRef moved behind the
\* loading guard of fetchWeatherData
HandleLocationSelectKeyOnFetch(location, seenLoading) ==
    LET locationKey == LocationKey(location)
    IN  /\ currentLocationRef' = location
        /\ selectedLocation' = location
        /\ IF locationKey # locationKeyRef
           THEN /\ locationKeyRef' = IF seenLoading THEN locationKeyRef
                                     ELSE locationKey
                /\ dataFetchedRef' = TRUE
                /\ FetchWeatherData(location, seenLoading)
           ELSE /\ UNCHANGED <<locationKeyRef, dataFetchedRef>>
                /\ UNCHANGED fetchVars

HandleLocationSelect(location, seenLoading) ==
    LET locationKey == LocationKey(location)
    IN  /\ currentLocationRef' = location
        /\ selectedLocation' = location
        /\ IF locationKey # locationKeyRef
           THEN /\ locationKeyRef' = locationKey
                /\ dataFetchedRef' = TRUE
                /\ FetchWeatherData(location, seenLoading)
           ELSE /\ UNCHANGED <<locationKeyRef, dataFetchedRef>>
                /\ UNCHANGED fetchVars

\* a click on the map: the handler of the current render runs
MapClick(lat, lng) ==
    /\ HandleLocationSelect(ClickLocation(lat, lng), loading)
    /\ lastOp' = [op |-> "mapClick", outcome |-> SelectOutcome]
    /\ UNCHANGED dataVars
    /\ UNCHANGED searchVars

\* ---------------------------------------------------------- handleSearch
\* handleSearch up to its await: the geocoding request leaves, and the
\* suspended call keeps the closure of this render (its `loading`)
SearchStart ==
    /\ searches[TRUE] + searches[FALSE] < MaxSearches
    /\ isSearching' = TRUE
    /\ searchError' = NoError
    /\ searches' = [searches EXCEPT ![loading] = @ + 1]
    /\ lastOp' = [op |-> "searchStart", outcome |-> ""]
    /\ UNCHANGED dataVars
    /\ UNCHANGED selectVars
    /\ UNCHANGED fetchVars

\* handleSearch after its await, with setIsSearching(false) at the end of
\* the try block instead of in finally: the return on an empty response
\* skips it
SearchRespNoFinally(captured, outcome, data) ==
    /\ searches[captured] > 0
    /\ searches' = [searches EXCEPT ![captured] = @ - 1]
    /\ IF outcome # "ok"
       THEN /\ searchError' = SearchFailedError
            /\ isSearching' = FALSE
            /\ UNCHANGED selectVars
            /\ UNCHANGED fetchVars
       ELSE IF Len(data) = 0
       THEN /\ searchError' = NotFoundError
            /\ UNCHANGED isSearching
            /\ UNCHANGED selectVars
            /\ UNCHANGED fetchVars
       ELSE LET result == data[1]
                newLocation == [lat |-> ParseFloat(result.lat),
                                lng |-> ParseFloat(result.lon),
                                name |-> SplitFirst(result.display_name)]
            IN  /\ HandleLocationSelect(newLocation, captured)
                /\ isSearching' = FALSE
                /\ UNCHANGED searchError
    /\ lastOp' = [op |-> "searchResp",
                  outcome |-> IF outcome # "ok" THEN "failed"
                              ELSE IF Len(data) = 0 THEN "empty"
                              ELSE SelectOutcome]
    /\ UNCHANGED dataVars

\* handleSearch after its await: the geocoding response of a search begun
\* under `loading` = captured arrives
SearchResp(captured, outcome, data) ==
    /\ searches[captured] > 0
    /\ searches' = [searches EXCEPT ![captured] = @ - 1]
    /\ isSearching' = FALSE
    /\ IF outcome # "ok"
       THEN /\ searchError' = SearchFailedError
            /\ UNCHANGED selectVars
            /\ UNCHANGED fetchVars
       ELSE IF Len(data) = 0
       THEN /\ searchError' = NotFoundError
            /\ UNCHANGED selectVars
            /\ UNCHANGED fetchVars
       ELSE LET result == data[1]
                newLocation == [lat |-> ParseFloat(result.lat),
                                lng |-> ParseFloat(result.lon),
                                name |-> SplitFirst(result.display_name)]
            IN  /\ HandleLocationSelect(newLocation, captured)
                /\ UNCHANGED searchError
    /\ lastOp' = [op |-> "searchResp",
                  outcome |-> IF outcome # "ok" THEN "failed"
                              ELSE IF Len(data) = 0 THEN "empty"
                              ELSE SelectOutcome]
    /\ UNCHANGED dataVars

\* --------------------------------------------------------- handleRefresh
\* handleRefresh sent through the key comparison of handleLocationSelect
HandleRefreshDedup(seenLoading) ==
    IF currentLocationRef # Null
          /\ LocationKey(currentLocationRef) # locationKeyRef
    THEN /\ dataFetchedRef' = TRUE
         /\ FetchWeatherData(currentLocationRef, seenLoading)
    ELSE /\ UNCHANGED dataFetchedRef
         /\ UNCHANGED fetchVars

\* handleRefresh without its test of currentLocationRef: fetchWeatherData
\* throws on the null location inside its try, and its catch reports it
HandleRefreshNoCheck(seenLoading) ==
    IF currentLocationRef # Null
    THEN /\ dataFetchedRef' = TRUE
         /\ FetchWeatherData(currentLocationRef, seenLoading)
    ELSE /\ dataFetchedRef' = TRUE
         /\ IF seenLoading
            THEN UNCHANGED fetchVars
            ELSE /\ error' = FetchError
                 /\ loading' = FALSE
                 /\ UNCHANGED <<cycles, fetchCount>>

HandleRefresh(seenLoading) ==
    IF currentLocationRef # Null
    THEN /\ dataFetchedRef' = TRUE
         /\ FetchWeatherData(currentLocationRef, seenLoading)
    ELSE /\ UNCHANGED dataFetchedRef
         /\ UNCHANGED fetchVars

\* the refresh entry point is invoked
ManualRefresh ==
    /\ HandleRefresh(loading)
    /\ lastOp' = [op |-> "manualRefresh", outcome |-> RefreshOutcome]
    /\ UNCHANGED <<selectedLocation, locationKeyRef, currentLocationRef>>
    /\ UNCHANGED dataVars
    /\ UNCHANGED searchVars

\* ------------------------------------------------------------- rendering
\* the branch of the render that mounts CountdownTimer with onRefresh
CountdownMounted ==
    /\ ~loading
    /\ error = NoError
    /\ weatherData # Null
    /\ forecastData # Null

\* the countdown of a mounted CountdownTimer reaches zero: onRefresh runs
TimerFire ==
    /\ CountdownMounted
    /\ HandleRefresh(loading)
    /\ lastOp' = [op |-> "timerFire", outcome |-> RefreshOutcome]
    /\ UNCHANGED <<selectedLocation, locationKeyRef, currentLocationRef>>
    /\ UNCHANGED dataVars
    /\ UNCHANGED searchVars

\* ------------------------------------------------------------------ Next
Next ==
    \/ \E p \in MapPoints : MapClick(p[1], p[2])
    \/ SearchStart
    \/ \E captured \in BOOLEAN, data \in GeoResponses :
          SearchResp(captured, "ok", data)
    \/ \E captured \in BOOLEAN, outcome \in Outcomes \ {"ok"} :
          SearchResp(captured, outcome, <<>>)
    \/ ManualRefresh
    \/ TimerFire
    \/ \E c \in cycles, outcome \in Outcomes : RespCurrent(c, outcome)
    \/ \E c \in cycles, outcome \in Outcomes : RespForecast(c, outcome)
    \/ \E c \in cycles, field \in AlertFields : RespAlerts(c, "ok", field)
    \/ \E c \in cycles, outcome \in Outcomes \ {"ok"} :
          RespAlerts(c, outcome, Undefined)

Spec == Init /\ [][Next]_vars

\* the pending network call of the suspended invocation named i returns
Respond(i) ==
    \E c \in cycles :
       /\ c.id = i
       /\ \/ \E outcome \in Outcomes : RespCurrent(c, outcome)
          \/ \E outcome \in Outcomes : RespForecast(c, outcome)
          \/ \E field \in AlertFields : RespAlerts(c, "ok", field)
          \/ \E outcome \in Outcomes \ {"ok"} :
                RespAlerts(c, outcome, Undefined)

\* every issued call of fetchWeatherData returns a response or an error
LiveSpec == Spec /\ \A i \in 1..MaxFetch : WF_vars(Respond(i))

\* ---------------------------------------------------------------- claims
SameCoords(a, b) == a.lat = b.lat /\ a.lng = b.lng

\* cycle c is suspended before the step and gone after it
Ended(c) == c \in cycles /\ \A d \in cycles' : d.id # c.id

\* the step initiates exactly one cycle, for the coordinates of location
StartsOneFor(location) ==
    /\ fetchCount' = fetchCount + 1
    /\ \E c \in cycles' :
          /\ cycles' = cycles \cup {c} /\ c \notin cycles
          /\ c.stage = "current" /\ SameCoords(c, location)

StartsNone == cycles' = cycles /\ fetchCount' = fetchCount

\* C1: a selectLocation call made with a new key while no cycle is in
\* flight stores the key in that same call and initiates exactly one fetch
\* cycle, for its coordinates; the next selectLocation call, if its
\* latitude and longitude format to the same 4-decimal texts, initiates
\* none, whether or not the first cycle's responses have arrived: the two
\* calls together initiate exactly one cycle.
C1_SameKeyOneFetch ==
    [][lastOp'.op = "mapClick" =>
         LET L1 == currentLocationRef
             L2 == currentLocationRef'
         IN  /\ locationKeyRef' = LocationKey(L2)
             /\ (locationKeyRef # LocationKey(L2) /\ ~loading
                    => StartsOneFor(L2))
             /\ (L1 # Null /\ LocationKey(L1) = LocationKey(L2)
                    => StartsNone)]_vars

\* C1 witness: the second of two selections with one key and different
\* coordinates has been made while the first one's cycle, the only cycle
\* so far, still waits for its first response
C1_Witness ==
    /\ lastOp = [op |-> "mapClick", outcome |-> "deduped"]
    /\ fetchCount = 1
    /\ \E c \in cycles :
          /\ c.stage = "current"
          /\ LocationKey(c) = LocationKey(selectedLocation)
          /\ ~SameCoords(c, selectedLocation)

\* C2: at most one fetch cycle is in flight in every reachable state
C2_AtMostOneInFlight == Cardinality(cycles) <= 1

\* C3: a selectLocation call whose key differs from the key of the
\* selection before it initiates a fetch cycle with its coordinates,
\* whether or not the earlier selection's cycle has completed
C3_DifferentKeysTwoFetches ==
    [][(/\ lastOp'.op = "mapClick"
        /\ currentLocationRef # Null
        /\ LocationKey(currentLocationRef) # LocationKey(currentLocationRef'))
         => StartsOneFor(currentLocationRef')]_vars

\* C4: when the current-conditions call of a cycle fails, the cycle ends
\* there (no forecast or alerts call), the error message is set, and
\* WeatherSnapshot, ForecastSeries, AlertSet and lastUpdatedAt have the
\* values they had when the cycle started
C4_CurrentFailureKeepsData ==
    [][\A c \in cycles :
         (c.stage = "current" /\ Ended(c))
           => /\ error' # NoError
              /\ dataVars' = c.before]_vars

\* C5: when the forecast call of a cycle fails after its current-conditions
\* call succeeded, WeatherSnapshot, ForecastSeries and AlertSet have the
\* values they had before the cycle started, and the error message is set
C5_ForecastFailureNoPartialWrite ==
    [][\A c \in cycles :
         (c.stage = "forecast" /\ Ended(c))
           => /\ error' # NoError
              /\ weatherData' = c.before[1]
              /\ forecastData' = c.before[2]
              /\ alertsData' = c.before[3]]_vars

\* C6: when the alerts call of a cycle fails, by a non-OK response or by a
\* failure of the request, the cycle ends with AlertSet absent,
\* lastUpdatedAt set, WeatherSnapshot and ForecastSeries those of this
\* cycle, and no error message
C6_AlertsFailureNonFatal ==
    [][\A c \in cycles :
         (/\ c.stage = "alerts" /\ Ended(c)
          /\ lastOp'.outcome \in {"notok", "reject"})
           => /\ alertsData' = Null
              /\ lastUpdated' # NoTime /\ lastUpdated' # lastUpdated
              /\ weatherData' = CurrentData(c)
              /\ forecastData' = [lat |-> c.lat, lng |-> c.lng]
              /\ error' = NoError]_vars

\* the last step was the failure of a fetch cycle
CycleFailed ==
    \/ lastOp.op \in {"respCurrent", "respForecast"} /\ lastOp.outcome = "failed"
    \/ lastOp.op = "respAlerts" /\ lastOp.outcome = "reject"

\* C7: in the state a failed fetch cycle leaves behind, with a location
\* selected, both recoveries are on offer: the refresh control is rendered
\* and a refresh would fetch, and selecting the same location again would
\* fetch
C7_RecoveryAfterFailure ==
    (CycleFailed /\ cycles = {} /\ selectedLocation # Null)
      => /\ CountdownMounted
         /\ currentLocationRef # Null /\ ~loading
         /\ LocationKey(selectedLocation) # locationKeyRef

\* C8: with a location selected and no cycle in flight, a manual refresh
\* or a timer firing initiates exactly one fetch cycle, for the stored
\* location, and leaves the stored key and the selected location as they
\* were
C8_RefreshBypassesDedup ==
    [][(/\ lastOp'.op \in {"manualRefresh", "timerFire"}
        /\ currentLocationRef # Null
        /\ cycles = {})
         => /\ StartsOneFor(currentLocationRef)
            /\ UNCHANGED <<locationKeyRef, selectedLocation,
                           currentLocationRef>>]_vars

\* C8 witness: a manual refresh has initiated a second cycle for a location
\* whose data is on display and whose key is the stored key
C8_Witness ==
    /\ lastOp = [op |-> "manualRefresh", outcome |-> "started"]
    /\ locationKeyRef = LocationKey(currentLocationRef)
    /\ weatherData # Null /\ forecastData # Null
    /\ fetchCount = 2 /\ Cardinality(cycles) = 1

\* C9: in every state with a location selected and no cycle in flight the
\* periodic refresh is active: the countdown that fires it is mounted
C9_TimerActiveWhileSelected ==
    (selectedLocation # Null /\ cycles = {}) => CountdownMounted

\* C10: a manual refresh invoked when no location has ever been selected
\* initiates no fetch and leaves loading, error, the data, lastUpdatedAt,
\* the key and the selection unchanged
C10_RefreshWithoutLocationNoop ==
    [][(lastOp'.op = "manualRefresh" /\ currentLocationRef = Null)
         => /\ StartsNone
            /\ UNCHANGED <<loading, error, weatherData, forecastData,
                           alertsData, lastUpdated, locationKeyRef,
                           selectedLocation, currentLocationRef>>]_vars

\* C10 witness: a manual refresh has run with no location selected
C10_Witness ==
    /\ lastOp = [op |-> "manualRefresh", outcome |-> "noLocation"]
    /\ currentLocationRef = Null /\ selectedLocation = Null

\* the location carries a name: among the locations handed to
\* handleLocationSelect, those built by handleSearch
HasName(location) == "name" \in DOMAIN location

\* C11: a search candidate and a map click with the same 4-decimal key
\* cause exactly one fetch cycle between them, in either order: whichever
\* of the two comes first, with a new key and no cycle in flight,
\* initiates exactly one cycle, and the other, coming second, initiates
\* none, whether the click came before or after the geocoding response
C11_SearchAndClickOneFetch ==
    [][(/\ lastOp'.op \in {"mapClick", "searchResp"}
        /\ lastOp'.outcome \in {"started", "deduped", "dropped"})
         => LET L1 == currentLocationRef
                L2 == currentLocationRef'
            IN  /\ (locationKeyRef # LocationKey(L2) /\ cycles = {}
                       => StartsOneFor(L2))
                /\ ((/\ L1 # Null
                     /\ HasName(L1) # HasName(L2)
                     /\ LocationKey(L1) = LocationKey(L2))
                       => StartsNone)]_vars

\* C12: lastUpdatedAt changes only in the step that ends a fetch cycle
\* whose current-conditions and forecast calls both succeeded; the failure
\* of a cycle, a refresh or selection stopped by the loading guard, a
\* deduplicated selection and a failed or empty search leave it unchanged
C12_LastUpdatedOnlyOnSuccess ==
    [][/\ lastUpdated' # lastUpdated
           => /\ lastOp'.op = "respAlerts"
              /\ \E c \in cycles : c.stage = "alerts" /\ Ended(c)
       /\ (\/ CycleFailed'
           \/ lastOp'.outcome \in {"dropped", "deduped", "failed", "empty",
                                   "noLocation"})
           => lastUpdated' = lastUpdated]_vars

\* C12 witness: of the two cycles of a behaviour, both ended, the last to
\* end had both calls answered and set lastUpdatedAt, and the other one
\* failed without setting it
C12_Witness ==
    /\ lastOp.op = "respAlerts" /\ lastOp.outcome # "reject"
    /\ lastUpdated = 1
    /\ fetchCount = 2 /\ cycles = {}

\* C13: a geocoding response with zero candidates sets a search error,
\* leaves the selected location, the current location and the stored key
\* as they were, initiates no fetch cycle and ends with isSearching false
C13_EmptySearchNoSelection ==
    [][(lastOp'.op = "searchResp" /\ lastOp'.outcome = "empty")
         => /\ searchError' # NoError /\ searchError' # ""
            /\ UNCHANGED <<selectedLocation, currentLocationRef,
                           locationKeyRef>>
            /\ StartsNone
            /\ isSearching' = FALSE]_vars

\* C13 witness: an empty geocoding response has arrived with a location
\* selected, its key stored, and its data on display
C13_Witness ==
    /\ lastOp = [op |-> "searchResp", outcome |-> "empty"]
    /\ searchError = NotFoundError /\ ~isSearching
    /\ selectedLocation # Null /\ locationKeyRef # Null
    /\ weatherData # Null

\* C14: the step that ends a successful fetch cycle for location A gives
\* the selected location the name of A's current-conditions response if
\* the location in state has A's latitude and longitude, and otherwise
\* (a location B selected meanwhile) leaves its name and coordinates alone
C14_NameReconciledIffSameCoords ==
    [][\A c \in cycles :
         (c.stage = "alerts" /\ Ended(c) /\ lastOp'.outcome # "reject")
           => IF selectedLocation # Null /\ SameCoords(selectedLocation, c)
              THEN selectedLocation' = [lat |-> c.lat, lng |-> c.lng,
                                        name |-> CurrentData(c).name]
              ELSE selectedLocation' = selectedLocation]_vars

\* C14 witness: the only cycle so far, for A, has ended with success while
\* a clicked location B with other coordinates is selected, and B still
\* has no name
C14_Witness ==
    /\ lastOp.op = "respAlerts" /\ lastOp.outcome # "reject"
    /\ fetchCount = 1
    /\ ~SameCoords(selectedLocation, weatherData)
    /\ ~HasName(selectedLocation)

\* cycle c is the one whose response the step delivers
Stepped(c) == c \in cycles /\ c \notin cycles'

\* C15: while a location B is selected whose key differs from that of a
\* cycle in flight for A, each successful response of A's cycle is
\* written over the displayed data all the same: the current-conditions
\* response over WeatherSnapshot, the forecast response over
\* ForecastSeries, the alerts response over AlertSet; no write but the
\* name update looks at the selection. The witness is the execution of
\* the claim.
C15_StaleCycleOverwritesData ==
    [][\A c \in cycles :
         (/\ Stepped(c)
          /\ selectedLocation # Null
          /\ LocationKey(selectedLocation) # LocationKey(c)
          /\ lastOp'.outcome \in {"ok", "okNoField"})
           => /\ c.stage = "current" => weatherData' = CurrentData(c)
              /\ c.stage = "forecast"
                    => forecastData' = [lat |-> c.lat, lng |-> c.lng]
              /\ c.stage = "alerts"
                    => IF lastOp'.outcome = "ok"
                       THEN alertsData' \in AlertFields \ {Undefined}
                       ELSE alertsData' = Null]_vars

\* C15 witness: the only cycle so far, for A, has delivered its three
\* responses; WeatherSnapshot, ForecastSeries and AlertSet are A's, and
\* the selected location is a B with another key, selected while A's
\* cycle was in flight (a selection of B after it would have started a
\* second cycle)
C15_Witness ==
    /\ lastOp = [op |-> "respAlerts", outcome |-> "ok"]
    /\ fetchCount = 1 /\ cycles = {}
    /\ weatherData # Null /\ forecastData # Null /\ alertsData # Null
    /\ SameCoords(weatherData, forecastData)
    /\ selectedLocation = currentLocationRef
    /\ LocationKey(selectedLocation) # LocationKey(weatherData)
    /\ locationKeyRef = LocationKey(selectedLocation)

InFlight(i) == \E c \in cycles : c.id = i

\* C16: every fetch cycle that starts ends, whatever its current, forecast
\* and alerts calls answer, given that each issued call returns; the step
\* that ends it leaves loading false, and whenever no call of any cycle is
\* outstanding loading is false
C16_CycleEndsLoadingFalse ==
    /\ \A i \in 1..MaxFetch : InFlight(i) ~> ~InFlight(i)
    /\ [][\A c \in cycles : Ended(c) => ~loading']_vars
    /\ [](cycles = {} => ~loading)

\* C16 witness: every cycle the bound allows has started and ended, the
\* last one by a rejected alerts call, and loading is false
C16_Witness ==
    /\ lastOp = [op |-> "respAlerts", outcome |-> "reject"]
    /\ fetchCount = MaxFetch /\ cycles = {}
    /\ ~loading

\* C17: when the alerts call of a cycle succeeds and its response carries
\* no alerts field, the cycle ends with AlertSet in a state other than the
\* absent one it has at initialization and after a failed alerts call
C17_MissingAlertsFieldIsEmpty ==
    [][\A c \in cycles :
         (/\ c.stage = "alerts" /\ Ended(c)
          /\ lastOp'.outcome = "okNoField")
           => alertsData' # Null]_vars

\* C18: in every reachable state the stored key, the current-location
\* reference and the selected location agree: all three are unset, or the
\* selected location and the reference have one latitude and longitude
\* and the stored key is that pair formatted to 4 decimal places
C18_KeyRefSelectionAgree ==
    \/ /\ selectedLocation = Null
       /\ currentLocationRef = Null
       /\ locationKeyRef = Null
    \/ /\ selectedLocation # Null
       /\ currentLocationRef # Null
       /\ SameCoords(selectedLocation, currentLocationRef)
       /\ locationKeyRef = LocationKey(selectedLocation)

\* C18 witness: after a search that failed, a fetch completion has given
\* the selected location the name of the response, so that it is no
\* longer the object the reference holds
C18_Witness ==
    /\ lastOp.op = "respAlerts" /\ lastOp.outcome # "reject"
    /\ searchError = SearchFailedError
    /\ selectedLocation # Null
    /\ selectedLocation # currentLocationRef
    /\ HasName(selectedLocation)
    /\ selectedLocation.name = ApiName

\* no fetch cycle is in flight and no geocoding request is pending
Quiescent == cycles = {} /\ \A b \in BOOLEAN : searches[b] = 0

\* C19: whenever the controller is quiescent, with no error shown and a
\* WeatherSnapshot displayed, the displayed WeatherSnapshot and
\* ForecastSeries were both fetched for the selected location: for
\* coordinates that format to the selected location's 4-decimal key, which
\* is the least that fetched for its coordinates can mean
C19_DisplayedDataIsForSelection ==
    (Quiescent /\ error = NoError /\ weatherData # Null)
      => /\ selectedLocation # Null
         /\ forecastData # Null
         /\ LocationKey(weatherData) = LocationKey(selectedLocation)
         /\ LocationKey(forecastData) = LocationKey(selectedLocation)

====
